---- MODULE Spec2Model ----
(***************************************************************************)
(* A model of the multicast-dns discovery layer: the Avahi wrapper         *)
(* (src/service_discovery/avahi_wrapper.rs), the discovery manager that    *)
(* drives it (avahi_service_discovery_manager.rs) and the fallback adapter *)
(* (src/adapters/fake/adapter.rs).                                         *)
(*                                                                         *)
(* Two threads act on the native wrapper: the caller's thread, which runs  *)
(* start_browser / resolve / stop_browser one at a time (AvahiWrapper      *)
(* holds RefCells and raw pointers, so it is neither Sync nor Send), and   *)
(* the native poll thread, which runs browse_callback / resolve_callback.  *)
(* A Rust Option is modelled as a set with at most one element, a C        *)
(* pointer as a set that is empty (NULL) or holds the pointee.             *)
(***************************************************************************)
EXTENDS Naturals, Sequences, FiniteSets

\* ------------------------------------------------------------------ bounds
\* start_browser calls made on the one wrapper
MaxCalls == 2
\* events the native poll thread hands to one start_browser call's channel
MaxEvents == 3
\* resolve calls made on the one wrapper
MaxResolves == 1
\* events the native poll thread hands to one resolve call's channel
MaxResolveEvents == 2

\* ---------------------------------------------------------- Option, pointer
None == {}
Some(x) == {x}
NULL == {}
Ptr(x) == {x}
unwrap(o) == CHOOSE x \in o : TRUE

\* ------------------------------------------------------------ input domains
\* C strings the native library passes as service names; the second is not
\* valid UTF-8.
CNames == {"a", "b\\xFF"}
\* service types a caller asks the fallback adapter for
Types == {"_http._tcp", "_ipp._tcp"}
\* service types a caller asks the native wrapper to browse
BrowseTypes == {"_http._tcp"}
CDomain == "local"

\* CStr::to_string_lossy: valid UTF-8 is copied, an invalid byte becomes U+FFFD.
to_string_lossy(c) == IF c = "b\\xFF" THEN "b\\uFFFD" ELSE c

parse_c_string(c_string) ==
    IF c_string = NULL THEN None ELSE Some(to_string_lossy(unwrap(c_string)))

\* parse_txt: NULL -> None, else the list rendered by avahi_string_list_to_string.
parse_txt(txt) ==
    IF txt = NULL THEN None ELSE Some(to_string_lossy(unwrap(txt)))

\* parse_address renders into the buffer of a Vec that is dropped at the end of
\* the statement that made it: the write and the read are of freed memory.
\* The texts it can yield: the rendered address (the block was not reused) or
\* other bytes; the third outcome, a fault, is the Crash of ResolveCallback.
parse_address_outcomes(address) ==
    IF address = NULL THEN {None}
    ELSE {Some(unwrap(address)), Some("<freed bytes>")}

\* -------------------------------------------------------------------- state
VARIABLES
    adapter,          \* which adapter the application selected: "avahi" | "fake"
    pc,               \* caller thread: idle | browse_loop | resolve_recv | panicked |
                      \* dropped (wrapper torn down) | crashed (process died)
    panic,            \* why the caller thread panicked ("" while it has not)
    poll,             \* AvahiWrapper.poll            : Option<handle>
    client,           \* AvahiWrapper.client          : Option<handle>
    service_browser,  \* AvahiWrapper.service_browser : Option<handle>
    polls,            \* native poll engines created (ids)
    polls_started,    \* native poll engines whose thread runs
    clients,          \* native clients created: [id, poll]
    browsers,         \* native browsers created: [id, client, service_type, call]
    browser_frees,    \* avahi_service_browser_free calls, in order (browser ids)
    resolvers,        \* native resolvers created: [id, client, call]
    resolver_frees,   \* avahi_service_resolver_free calls, in order
    calls,            \* start_browser calls made so far
    rcalls,           \* resolve calls made so far
    service_type,     \* start_browser's service_type argument (current call)
    pushed,           \* every event sent into the current browse channel
    taken,            \* how many of them rx has handed out
    produced,         \* events produced for the current operation
    log,              \* DiscoveryListener calls of the current start_browser
    rquery,           \* resolve's service argument (current call) : Option
    rpushed,          \* every event sent into the current resolve channel
    rtaken,           \* how many of them rx.recv() has handed out
    rlog,             \* ResolveListener calls of the current resolve
    fakeIn,           \* the fallback adapter's last call and its arguments
    fakeLog           \* listener calls made by the fallback adapter's last call

wrapperVars == <<poll, client, service_browser>>
nativeVars == <<polls, polls_started, clients, browsers, browser_frees,
                resolvers, resolver_frees>>
browseVars == <<calls, service_type, pushed, taken, produced, log>>
resolveVars == <<rcalls, rquery, rpushed, rtaken, rlog>>
fakeVars == <<fakeIn, fakeLog>>
vars == <<adapter, pc, panic, wrapperVars, nativeVars, browseVars,
          resolveVars, fakeVars>>

Range(s) == {s[i] : i \in DOMAIN s}
Count(s, x) == Cardinality({i \in DOMAIN s : s[i] = x})

\* ---------------------------------------------------------------- channels
\* std::sync::mpsc: send appends, the receiver hands out the oldest first.
send(channel, parameters) == Append(channel, parameters)
\* a receiver that hands out the newest event instead
recv_newest(channel, n) == channel[Len(channel)]
recv(channel, n) == channel[n + 1]

\* ------------------------------------------------------------ native events
NewId(created) == Cardinality(created) + 1

\* What the native library passes to browse_callback for browser b: a new or
\* removed service comes with its name, type and domain, every other event
\* with null strings.
BrowserArgs(b) ==
    { [event |-> "AVAHI_BROWSER_NEW", interface |-> 2, protocol |-> 0,
       name |-> Ptr(n), service_type |-> Ptr(b.service_type),
       domain |-> Ptr(CDomain)] : n \in CNames }
    \cup
    { [event |-> "AVAHI_BROWSER_REMOVE", interface |-> 2, protocol |-> 0,
       name |-> Ptr("a"), service_type |-> Ptr(b.service_type),
       domain |-> Ptr(CDomain)] }
    \cup
    { [event |-> e, interface |-> 2, protocol |-> 0, name |-> NULL,
       service_type |-> NULL, domain |-> NULL] :
         e \in {"AVAHI_BROWSER_CACHE_EXHAUSTED", "AVAHI_BROWSER_ALL_FOR_NOW",
                "AVAHI_BROWSER_FAILURE"} }

\* What the native library passes to resolve_callback for a resolver of query
\* q (the resolver that calls back is the one the latest resolve created): a
\* found service comes with every string and an address (its TXT list is
\* NULL when the record is empty), a failure echoes the query and has a null
\* host name, address and TXT list.
ResolverArgs(q) ==
    { [event |-> "AVAHI_RESOLVER_FOUND", interface |-> 2, protocol |-> 0,
       name |-> Ptr(q.name), service_type |-> Ptr(q.type_name),
       domain |-> Ptr(q.domain), host_name |-> Ptr("host.local"),
       address |-> Ptr("192.0.2.7"), port |-> 8080, txt |-> t] :
         t \in {NULL, Ptr("\"k=v\"")} }
    \cup
    { [event |-> "AVAHI_RESOLVER_FAILURE", interface |-> q.interface,
       protocol |-> q.protocol, name |-> Ptr(q.name),
       service_type |-> Ptr(q.type_name), domain |-> Ptr(q.domain),
       host_name |-> NULL, address |-> NULL, port |-> 0, txt |-> NULL] }

\* The services a caller passes to resolve: descriptions as start_browser
\* delivers them.
Queries ==
    { [address |-> "", domain |-> CDomain, host_name |-> "", interface |-> 2,
       name |-> to_string_lossy(n), port |-> 0, protocol |-> 0, txt |-> "",
       type_name |-> "_http._tcp"] : n \in CNames }

\* ------------------------------------------------------------------ Init
\* AvahiWrapper::new, held by AvahiServiceDiscoveryManager::new; no native
\* object exists yet.
Init ==
    /\ adapter \in {"avahi", "fake"}
    /\ pc = "idle"
    /\ panic = ""
    /\ poll = None
    /\ client = None
    /\ service_browser = None
    /\ polls = {}
    /\ polls_started = {}
    /\ clients = {}
    /\ browsers = {}
    /\ browser_frees = << >>
    /\ resolvers = {}
    /\ resolver_frees = << >>
    /\ calls = 0
    /\ rcalls = 0
    /\ service_type = ""
    /\ pushed = << >>
    /\ taken = 0
    /\ produced = 0
    /\ log = << >>
    /\ rquery = None
    /\ rpushed = << >>
    /\ rtaken = 0
    /\ rlog = << >>
    /\ fakeIn = [op |-> "none"]
    /\ fakeLog = << >>

\* ------------------------------------------------------------ start_browser
\* initialize_client clearing self.client before it panics.
initialize_client_clearing(avahi_client) ==
    IF avahi_client = NULL
    THEN [panicked |-> TRUE, client |-> None]
    ELSE [panicked |-> FALSE, client |-> Some(unwrap(avahi_client))]

\* initialize_client: the handle left in self.client and whether it panicked.
initialize_client(avahi_client) ==
    IF avahi_client = NULL
    THEN [panicked |-> TRUE, client |-> client]
    ELSE [panicked |-> FALSE, client |-> Some(unwrap(avahi_client))]

\* start_polling: whether avahi_threaded_poll_start's result makes it panic.
start_polling(result_code) == [panicked |-> result_code = "-1"]

\* start_browser up to the loop (lines 161-183): a poll engine is created
\* and stored, then a client (a null client panics), a channel, a browser
\* registered with the address of tx, and the poll thread is started.
start_browser(st, avahi_client, result_code) ==
    LET avahi_poll == NewId(polls)
        ic == initialize_client(avahi_client)
        avahi_service_browser == NewId(browsers)
    IN
    /\ adapter = "avahi"
    /\ pc = "idle"
    /\ calls < MaxCalls
    /\ calls' = calls + 1
    /\ service_type' = st
    /\ poll' = Some(avahi_poll)
    /\ polls' = polls \cup {avahi_poll}
    /\ client' = ic.client
    /\ pushed' = << >>
    /\ taken' = 0
    /\ produced' = 0
    /\ log' = << >>
    /\ IF ic.panicked
       THEN /\ pc' = "panicked"
            /\ panic' = "client_null"
            /\ UNCHANGED <<service_browser, clients, browsers, polls_started>>
       ELSE /\ clients' = clients \cup
                  {[id |-> unwrap(avahi_client), poll |-> avahi_poll]}
            /\ browsers' = browsers \cup
                  {[id |-> avahi_service_browser, client |-> unwrap(ic.client),
                    service_type |-> st, call |-> calls + 1]}
            /\ service_browser' = Some(avahi_service_browser)
            /\ IF start_polling(result_code).panicked
               THEN /\ pc' = "panicked"
                    /\ panic' = "poll_start"
                    /\ UNCHANGED polls_started
               ELSE /\ pc' = "browse_loop"
                    /\ polls_started' = polls_started \cup {avahi_poll}
                    /\ UNCHANGED panic
    /\ rquery' = None
    /\ rpushed' = << >>
    /\ rtaken' = 0
    /\ rlog' = << >>
    /\ UNCHANGED <<adapter, browser_frees, resolvers, resolver_frees, rcalls,
                   fakeVars>>

StartBrowser ==
    \E st \in BrowseTypes, avahi_client \in {NULL, Ptr(NewId(clients))},
       result_code \in {"0", "-1"} :
        start_browser(st, avahi_client, result_code)

\* browse_callback (lines 96-104): the event the callback builds from its
\* arguments.
browse_callback(args) ==
    [event |-> args.event, interface |-> args.interface,
     protocol |-> args.protocol, name |-> parse_c_string(args.name),
     service_type |-> parse_c_string(args.service_type),
     domain |-> parse_c_string(args.domain)]

\* A browser calls back while it is unreleased and its client's poll thread
\* runs.
Emitting(b) ==
    /\ b.id \notin Range(browser_frees)
    /\ \E c \in clients : c.id = b.client /\ c.poll \in polls_started

\* The sender whose address is b's userdata is start_browser's local tx: it
\* lives while the call that created b is in its loop.
SenderAlive(b) == pc = "browse_loop" /\ b.call = calls

\* The process dies (a fault in undefined behaviour): its threads, channels
\* and listeners are gone with it; what the native side held stays as it was.
Crash ==
    /\ pc' = "crashed"
    /\ pushed' = << >>
    /\ taken' = 0
    /\ produced' = 0
    /\ log' = << >>
    /\ rquery' = None
    /\ rpushed' = << >>
    /\ rtaken' = 0
    /\ rlog' = << >>
    /\ UNCHANGED <<calls, service_type, rcalls>>

\* The poll thread runs browse_callback for browser b and tx is alive: the
\* event is sent into the channel.
BrowseCallback ==
    \E b \in browsers : \E args \in BrowserArgs(b) :
        /\ pc # "crashed"
        /\ Emitting(b)
        /\ SenderAlive(b)
        /\ produced < MaxEvents
        /\ produced' = produced + 1
        /\ pushed' = send(pushed, browse_callback(args))
        /\ UNCHANGED <<adapter, pc, panic, wrapperVars, nativeVars, calls,
                       service_type, taken, log, resolveVars, fakeVars>>

\* The poll thread runs browse_callback for a browser whose tx is gone
\* (start_browser returned or unwound): the send is through a dangling
\* reference. The outcomes: the process dies; nothing the program observes;
\* or, when a later start_browser is in its loop with its own tx in the same
\* stack slot, the event lands in that call's channel.
BrowseCallbackDangling ==
    \E b \in browsers : \E args \in BrowserArgs(b) :
        /\ pc # "crashed"
        /\ Emitting(b)
        /\ ~SenderAlive(b)
        /\ \/ Crash
           \/ UNCHANGED <<pc, browseVars, resolveVars>>
           \/ /\ pc = "browse_loop"
              /\ produced < MaxEvents
              /\ produced' = produced + 1
              /\ pushed' = send(pushed, browse_callback(args))
              /\ UNCHANGED <<pc, calls, service_type, taken, log,
                             resolveVars>>
        /\ UNCHANGED <<adapter, panic, wrapperVars, nativeVars, fakeVars>>

\* DiscoveredService with the event's name copied into host_name.
DiscoveredService_host(a, st) ==
    [address |-> "", domain |-> unwrap(a.domain),
     host_name |-> unwrap(a.name), interface |-> a.interface,
     name |-> unwrap(a.name), port |-> 0, protocol |-> a.protocol,
     txt |-> "", type_name |-> st]

\* The ServiceDescription start_browser builds for a "new service" event
\* (lines 188-198).
DiscoveredService(a, st) ==
    [address |-> "", domain |-> unwrap(a.domain), host_name |-> "",
     interface |-> a.interface, name |-> unwrap(a.name), port |-> 0,
     protocol |-> a.protocol, txt |-> "", type_name |-> st]

\* browse_dispatch leaving the loop on a failure event as well.
browse_dispatch_failure_breaks(a, st) ==
    IF a.event = "AVAHI_BROWSER_NEW"
    THEN IF a.domain = None \/ a.name = None
         THEN [listener |-> << >>, break |-> FALSE, panicked |-> TRUE]
         ELSE [listener |-> << [call |-> "on_service_discovered",
                                 arg |-> <<DiscoveredService(a, st)>>] >>,
               break |-> FALSE, panicked |-> FALSE]
    ELSE IF a.event = "AVAHI_BROWSER_ALL_FOR_NOW"
    THEN [listener |-> << [call |-> "on_all_discovered", arg |-> << >>] >>,
          break |-> TRUE, panicked |-> FALSE]
    ELSE [listener |-> << >>, break |-> a.event = "AVAHI_BROWSER_FAILURE",
          panicked |-> FALSE]

\* browse_dispatch reporting a removed service to the listener as if it had
\* been discovered.
browse_dispatch_removal_notified(a, st) ==
    IF a.event \in {"AVAHI_BROWSER_NEW", "AVAHI_BROWSER_REMOVE"}
    THEN IF a.domain = None \/ a.name = None
         THEN [listener |-> << >>, break |-> FALSE, panicked |-> TRUE]
         ELSE [listener |-> << [call |-> "on_service_discovered",
                                 arg |-> <<DiscoveredService(a, st)>>] >>,
               break |-> FALSE, panicked |-> FALSE]
    ELSE IF a.event = "AVAHI_BROWSER_ALL_FOR_NOW"
    THEN [listener |-> << [call |-> "on_all_discovered", arg |-> << >>] >>,
          break |-> TRUE, panicked |-> FALSE]
    ELSE [listener |-> << >>, break |-> FALSE, panicked |-> FALSE]

\* One turn of the loop's match (lines 186-211): the listener calls it makes,
\* whether it breaks out of the loop, whether an unwrap panics.
browse_dispatch(a, st) ==
    IF a.event = "AVAHI_BROWSER_NEW"
    THEN IF a.domain = None \/ a.name = None
         THEN [listener |-> << >>, break |-> FALSE, panicked |-> TRUE]
         ELSE [listener |-> << [call |-> "on_service_discovered",
                                 arg |-> <<DiscoveredService(a, st)>>] >>,
               break |-> FALSE, panicked |-> FALSE]
    ELSE IF a.event = "AVAHI_BROWSER_ALL_FOR_NOW"
    THEN [listener |-> << [call |-> "on_all_discovered", arg |-> << >>] >>,
          break |-> TRUE, panicked |-> FALSE]
    ELSE [listener |-> << >>, break |-> FALSE, panicked |-> FALSE]

\* The loop `for a in rx.iter()` takes the next event and dispatches it; the
\* break ends start_browser, which returns to its caller.
BrowseRecv ==
    /\ pc = "browse_loop"
    /\ taken < Len(pushed)
    /\ LET d == browse_dispatch(recv(pushed, taken), service_type) IN
        /\ taken' = taken + 1
        /\ log' = log \o d.listener
        /\ pc' = IF d.panicked THEN "panicked"
                 ELSE IF d.break THEN "idle" ELSE "browse_loop"
        /\ panic' = IF d.panicked THEN "unwrap_none" ELSE panic
    /\ UNCHANGED <<adapter, wrapperVars, nativeVars, calls, service_type,
                   pushed, produced, resolveVars, fakeVars>>

\* ------------------------------------------------------------------ resolve
\* The resolver the running resolve call created (its local
\* avahi_service_resolver), if the native call returned one.
CurrentResolver == {r \in resolvers : r.call = rcalls}

\* resolve keeping its resolver in the wrapper's browser cell.
resolve_storing(service, avahi_service_resolver) ==
    /\ adapter = "avahi"
    /\ pc = "idle"
    /\ rcalls < MaxResolves
    /\ client # None
    /\ rcalls' = rcalls + 1
    /\ rquery' = Some(service)
    /\ rpushed' = << >>
    /\ rtaken' = 0
    /\ rlog' = << >>
    /\ produced' = 0
    /\ pc' = "resolve_recv"
    /\ resolvers' = resolvers \cup
          { [id |-> r, client |-> unwrap(client), call |-> rcalls + 1] :
              r \in avahi_service_resolver }
    /\ service_browser' = avahi_service_resolver
    /\ pushed' = << >>
    /\ taken' = 0
    /\ log' = << >>
    /\ UNCHANGED <<adapter, panic, poll, client, polls, polls_started,
                   clients, browsers, browser_frees, resolver_frees, calls,
                   service_type, fakeVars>>

\* resolve handing a null client to avahi_service_resolver_new instead of
\* unwrapping the cell: it goes on to wait for an event whatever the cell holds.
resolve_unchecked(service, avahi_service_resolver) ==
    /\ adapter = "avahi"
    /\ pc = "idle"
    /\ rcalls < MaxResolves
    /\ rcalls' = rcalls + 1
    /\ rquery' = Some(service)
    /\ rpushed' = << >>
    /\ rtaken' = 0
    /\ rlog' = << >>
    /\ produced' = 0
    /\ pc' = "resolve_recv"
    /\ resolvers' = resolvers \cup
          { [id |-> r,
             client |-> IF client = None THEN 0 ELSE unwrap(client),
             call |-> rcalls + 1] : r \in avahi_service_resolver }
    /\ pushed' = << >>
    /\ taken' = 0
    /\ log' = << >>
    /\ UNCHANGED <<adapter, panic, wrapperVars, polls, polls_started, clients,
                   browsers, browser_frees, resolver_frees, calls,
                   service_type, fakeVars>>

\* resolve up to rx.recv() (lines 216-233): a channel, then a resolver
\* created against self.client.borrow().unwrap(), which panics on None.
resolve(service, avahi_service_resolver) ==
    /\ adapter = "avahi"
    /\ pc = "idle"
    /\ rcalls < MaxResolves
    /\ rcalls' = rcalls + 1
    /\ rquery' = Some(service)
    /\ rpushed' = << >>
    /\ rtaken' = 0
    /\ rlog' = << >>
    /\ produced' = 0
    /\ IF client = None
       THEN /\ pc' = "panicked"
            /\ panic' = "client_none"
            /\ UNCHANGED resolvers
       ELSE /\ pc' = "resolve_recv"
            /\ resolvers' = resolvers \cup
                  { [id |-> r, client |-> unwrap(client), call |-> rcalls + 1] :
                      r \in avahi_service_resolver }
            /\ UNCHANGED panic
    /\ pushed' = << >>
    /\ taken' = 0
    /\ log' = << >>
    /\ UNCHANGED <<adapter, wrapperVars, polls, polls_started, clients,
                   browsers, browser_frees, resolver_frees, calls,
                   service_type, fakeVars>>

Resolve ==
    \E service \in Queries,
       avahi_service_resolver \in {NULL, Ptr(NewId(resolvers))} :
        resolve(service, avahi_service_resolver)

\* resolve_callback (lines 128-140): the event the callback builds from its
\* arguments, given the text parse_address read.
resolve_callback(args, address) ==
    [event |-> args.event, address |-> address, interface |-> args.interface,
     protocol |-> args.protocol, port |-> args.port,
     host_name |-> parse_c_string(args.host_name),
     name |-> parse_c_string(args.name),
     service_type |-> parse_c_string(args.service_type),
     domain |-> parse_c_string(args.domain), txt |-> parse_txt(args.txt)]

ResolverEmitting(r) ==
    /\ r.id \notin Range(resolver_frees)
    /\ \E c \in clients : c.id = r.client /\ c.poll \in polls_started

\* The sender whose address is r's userdata is resolve's local tx.
ResolverSenderAlive(r) == pc = "resolve_recv" /\ r.call = rcalls

\* The poll thread runs resolve_callback for resolver r while resolve waits.
ResolveCallback ==
    \E r \in resolvers :
        /\ pc # "crashed"
        /\ ResolverEmitting(r)
        /\ ResolverSenderAlive(r)
        /\ produced < MaxResolveEvents
        /\ \E args \in ResolverArgs(unwrap(rquery)) :
             \/ \E address \in parse_address_outcomes(args.address) :
                  /\ produced' = produced + 1
                  /\ rpushed' = send(rpushed, resolve_callback(args, address))
                  /\ UNCHANGED <<pc, calls, service_type, pushed, taken, log,
                                 rcalls, rquery, rtaken, rlog>>
             \/ /\ args.address # NULL
                /\ Crash
        /\ UNCHANGED <<adapter, panic, wrapperVars, nativeVars, fakeVars>>

\* The poll thread runs resolve_callback for a resolver that resolve left
\* registered when it unwound: the send is through a dangling reference, and
\* the process dies of it or goes on unaware.
ResolveCallbackDangling ==
    \E r \in resolvers :
        /\ pc # "crashed"
        /\ ResolverEmitting(r)
        /\ ~ResolverSenderAlive(r)
        /\ \/ Crash
           \/ UNCHANGED <<pc, browseVars, resolveVars>>
        /\ UNCHANGED <<adapter, panic, wrapperVars, nativeVars, fakeVars>>

\* resolved_service with every unwrap replaced by a default.
resolved_service_defaulting(raw_service) ==
    LET or_empty(o) == IF o = None THEN "" ELSE unwrap(o) IN
    Some([address |-> or_empty(raw_service.address),
          domain |-> or_empty(raw_service.domain),
          host_name |-> or_empty(raw_service.host_name),
          interface |-> raw_service.interface,
          name |-> or_empty(raw_service.name),
          port |-> raw_service.port,
          protocol |-> raw_service.protocol,
          txt |-> or_empty(raw_service.txt),
          type_name |-> or_empty(raw_service.service_type)])

\* The ServiceDescription resolve builds from the event (lines 239-249):
\* None when one of its unwraps panics.
resolved_service(raw_service) ==
    IF \/ raw_service.address = None
       \/ raw_service.domain = None
       \/ raw_service.host_name = None
       \/ raw_service.name = None
       \/ raw_service.txt = None
       \/ raw_service.service_type = None
    THEN None
    ELSE Some([address |-> unwrap(raw_service.address),
               domain |-> unwrap(raw_service.domain),
               host_name |-> unwrap(raw_service.host_name),
               interface |-> raw_service.interface,
               name |-> unwrap(raw_service.name),
               port |-> raw_service.port,
               protocol |-> raw_service.protocol,
               txt |-> unwrap(raw_service.txt),
               type_name |-> unwrap(raw_service.service_type)])

\* ResolveRecv with the second rx.recv() of line 253 live: resolve goes on
\* only once two events are in the channel, and takes both.
ResolveRecv_second_recv ==
    /\ pc = "resolve_recv"
    /\ rtaken + 1 < Len(rpushed)
    /\ rtaken' = rtaken + 2
    /\ LET service == resolved_service(recv(rpushed, rtaken)) IN
        IF service = None
        THEN /\ pc' = "panicked"
             /\ panic' = "unwrap_none"
             /\ UNCHANGED <<rlog, resolver_frees>>
        ELSE /\ rlog' = Append(rlog, [call |-> "on_service_resolved",
                                      arg |-> <<unwrap(service)>>])
             /\ resolver_frees' =
                    Append(resolver_frees, unwrap(CurrentResolver).id)
             /\ pc' = "idle"
             /\ UNCHANGED panic
    /\ UNCHANGED <<adapter, wrapperVars, polls, polls_started, clients,
                   browsers, browser_frees, resolvers, browseVars, rcalls,
                   rquery, rpushed, fakeVars>>

\* resolve from rx.recv() on (lines 237-257): one event is taken; the
\* description is built (a None field panics and ends the call there), the
\* listener is called and the resolver is released.
ResolveRecv ==
    /\ pc = "resolve_recv"
    /\ rtaken < Len(rpushed)
    /\ rtaken' = rtaken + 1
    /\ LET service == resolved_service(recv(rpushed, rtaken)) IN
        IF service = None
        THEN /\ pc' = "panicked"
             /\ panic' = "unwrap_none"
             /\ UNCHANGED <<rlog, resolver_frees>>
        ELSE /\ rlog' = Append(rlog, [call |-> "on_service_resolved",
                                      arg |-> <<unwrap(service)>>])
             /\ resolver_frees' =
                    Append(resolver_frees, unwrap(CurrentResolver).id)
             /\ pc' = "idle"
             /\ UNCHANGED panic
    /\ UNCHANGED <<adapter, wrapperVars, polls, polls_started, clients,
                   browsers, browser_frees, resolvers, browseVars, rcalls,
                   rquery, rpushed, fakeVars>>

\* -------------------------------------------------------------- stop_browser
\* stop_browser leaving the released handle in the cell.
stop_browser_keeping(active) ==
    [free |-> IF active = None THEN << >> ELSE <<unwrap(active)>>,
     service_browser |-> active]

\* AvahiWrapper::stop_browser is called by the manager and is not part of
\* avahi_wrapper.rs; it is modelled from its description: it releases the
\* active browser, and is a no-op when there is none.
stop_browser(active) ==
    [free |-> IF active = None THEN << >> ELSE <<unwrap(active)>>,
     service_browser |-> None]

\* AvahiServiceDiscoveryManager::stop_service_discovery.
stop_service_discovery ==
    /\ adapter = "avahi"
    /\ pc = "idle"
    /\ LET sb == stop_browser(service_browser) IN
        /\ browser_frees' = browser_frees \o sb.free
        /\ service_browser' = sb.service_browser
    /\ UNCHANGED <<adapter, pc, panic, poll, client, polls, polls_started,
                   clients, browsers, resolvers, resolver_frees, browseVars,
                   resolveVars, fakeVars>>

\* ------------------------------------------------------------------ teardown
\* The native releases of a poll engine and of a client that the wrapper
\* makes: avahi_wrapper.rs calls neither avahi_threaded_poll_free nor
\* avahi_client_free anywhere, so both call histories are empty.
poll_frees == << >>
client_frees == << >>

\* Dropping the AvahiWrapper (with the manager that owns it).  The struct
\* has no Drop implementation: its three fields are RefCell<Option<*mut _>>,
\* whose drop glue runs no native call.  The poll threads keep running.
drop_wrapper ==
    /\ adapter = "avahi"
    /\ pc = "idle"
    /\ pc' = "dropped"
    /\ UNCHANGED <<adapter, panic, wrapperVars, nativeVars, browseVars,
                   resolveVars, fakeVars>>

\* ---------------------------------------------------------- fallback adapter
\* The ServiceInfo values a caller passes to FakeAdapter::resolve.
ServiceInfos ==
    { [address |-> r.address, domain |-> d, host_name |-> r.host_name,
       interface |-> i, name |-> n, port |-> r.port, protocol |-> p,
       txt |-> r.txt, type_name |-> t] :
         d \in {None, Some("local")}, i \in {1, 2},
         n \in {None, Some("printer")}, p \in {"IPv4", "IPv6"},
         t \in {None, Some("_ipp._tcp")},
         r \in { [address |-> None, host_name |-> None, port |-> 0,
                  txt |-> None],
                 [address |-> Some("10.0.0.9"), host_name |-> Some("x.local"),
                  port |-> 5353, txt |-> Some("\"a=b\"")] } }

\* Which listeners a caller supplies (is_some of each).
DiscoveryListeners ==
    [on_service_discovered : BOOLEAN, on_all_discovered : BOOLEAN]
ResolveListeners == [on_service_resolved : BOOLEAN]

\* start_discovery with its two `if` blocks in the other order.
start_discovery_all_first(st, listeners) ==
    (IF listeners.on_all_discovered
     THEN << [call |-> "on_all_discovered", arg |-> << >>] >>
     ELSE << >>)
    \o
    (IF listeners.on_service_discovered
     THEN << [call |-> "on_service_discovered",
              arg |-> << [address |-> None, domain |-> Some("local"),
                          host_name |-> None, interface |-> 1,
                          name |-> Some("fake"), port |-> 0,
                          protocol |-> "IPv4", txt |-> None,
                          type_name |-> Some(st)] >>] >>
     ELSE << >>)

\* FakeAdapter::start_discovery: the listener calls it makes, in order.
start_discovery(st, listeners) ==
    (IF listeners.on_service_discovered
     THEN << [call |-> "on_service_discovered",
              arg |-> << [address |-> None, domain |-> Some("local"),
                          host_name |-> None, interface |-> 1,
                          name |-> Some("fake"), port |-> 0,
                          protocol |-> "IPv4", txt |-> None,
                          type_name |-> Some(st)] >>] >>
     ELSE << >>)
    \o
    (IF listeners.on_all_discovered
     THEN << [call |-> "on_all_discovered", arg |-> << >>] >>
     ELSE << >>)

FakeStartDiscovery ==
    \E st \in Types, listeners \in DiscoveryListeners :
        /\ adapter = "fake"
        /\ fakeIn' = [op |-> "start_discovery", service_type |-> st,
                      listeners |-> listeners]
        /\ fakeLog' = start_discovery(st, listeners)
        /\ UNCHANGED <<adapter, pc, panic, wrapperVars, nativeVars,
                       browseVars, resolveVars>>

\* fake_resolved with the name replaced by the adapter's own.
fake_resolved_renamed(service) ==
    [address |-> Some("192.168.1.1"), domain |-> service.domain,
     host_name |-> Some("fake.local"), interface |-> service.interface,
     name |-> Some("fake"), port |-> 80, protocol |-> service.protocol,
     txt |-> Some("\"model=Xserve\""), type_name |-> service.type_name]

\* FakeAdapter::resolve: the ServiceInfo it builds from its argument.
fake_resolved(service) ==
    [address |-> Some("192.168.1.1"), domain |-> service.domain,
     host_name |-> Some("fake.local"), interface |-> service.interface,
     name |-> service.name, port |-> 80, protocol |-> service.protocol,
     txt |-> Some("\"model=Xserve\""), type_name |-> service.type_name]

\* FakeAdapter::resolve: the listener calls it makes.
fake_resolve(service, listeners) ==
    IF listeners.on_service_resolved
    THEN << [call |-> "on_service_resolved",
             arg |-> <<fake_resolved(service)>>] >>
    ELSE << >>

FakeResolve ==
    \E service \in ServiceInfos, listeners \in ResolveListeners :
        /\ adapter = "fake"
        /\ fakeIn' = [op |-> "resolve", service |-> service,
                      listeners |-> listeners]
        /\ fakeLog' = fake_resolve(service, listeners)
        /\ UNCHANGED <<adapter, pc, panic, wrapperVars, nativeVars,
                       browseVars, resolveVars>>

\* ------------------------------------------------------------ specification
Next ==
    \/ StartBrowser
    \/ BrowseCallback
    \/ BrowseCallbackDangling
    \/ BrowseRecv
    \/ Resolve
    \/ ResolveCallback
    \/ ResolveCallbackDangling
    \/ ResolveRecv
    \/ stop_service_discovery
    \/ drop_wrapper
    \/ FakeStartDiscovery
    \/ FakeResolve

Spec == Init /\ [][Next]_vars

\* rx.recv() blocks the caller thread only while the channel is empty: once
\* an event is in it the thread is woken and goes on.
FairSpec == Spec /\ WF_vars(ResolveRecv)

\* ------------------------------------------------------------------ claims
Discovered(l) == {l[i].arg[1] : i \in {j \in DOMAIN l : l[j].call = "on_service_discovered"}}

\* C5: for every service type t, the fallback adapter's start_discovery
\* called with both listeners calls the discovered-one listener exactly once,
\* with type_name = t and domain = "local", then the discovered-all listener
\* exactly once, and calls no listener after that.
C5_FallbackDiscoversOnceThenAll ==
    (/\ fakeIn.op = "start_discovery"
     /\ fakeIn.listeners.on_service_discovered
     /\ fakeIn.listeners.on_all_discovered)
    => /\ Len(fakeLog) = 2
       /\ fakeLog[1].call = "on_service_discovered"
       /\ fakeLog[1].arg[1].type_name = Some(fakeIn.service_type)
       /\ fakeLog[1].arg[1].domain = Some("local")
       /\ fakeLog[2].call = "on_all_discovered"

C5_Witness ==
    /\ fakeIn.op = "start_discovery"
    /\ fakeIn.service_type = "_ipp._tcp"
    /\ fakeIn.listeners.on_service_discovered
    /\ fakeIn.listeners.on_all_discovered
    /\ Len(fakeLog) = 2

\* C6: for every description d passed to the fallback adapter's resolve, the
\* description the resolved listener receives has d's domain, interface,
\* name, protocol and type_name, and the fixed address 192.168.1.1, host name
\* fake.local, port 80 and txt "model=Xserve", whatever d holds there.
C6_FallbackResolvePreserves ==
    (fakeIn.op = "resolve" /\ fakeIn.listeners.on_service_resolved)
    => /\ Len(fakeLog) = 1
       /\ fakeLog[1].call = "on_service_resolved"
       /\ LET d == fakeIn.service
              r == fakeLog[1].arg[1]
          IN /\ r.domain = d.domain
             /\ r.interface = d.interface
             /\ r.name = d.name
             /\ r.protocol = d.protocol
             /\ r.type_name = d.type_name
             /\ r.address = Some("192.168.1.1")
             /\ r.host_name = Some("fake.local")
             /\ r.port = 80
             /\ r.txt = Some("\"model=Xserve\"")

C6_Witness ==
    /\ fakeIn.op = "resolve"
    /\ fakeIn.listeners.on_service_resolved
    /\ fakeIn.service.name = Some("printer")
    /\ fakeIn.service.address = Some("10.0.0.9")
    /\ fakeIn.service.port = 5353
    /\ Len(fakeLog) = 1

\* C7: every description handed to on_service_discovered has port 0 and no
\* address, host name or txt, whatever events came before it: in the native
\* wrapper, whose description holds plain strings, these three are the empty
\* string; in the fallback adapter, whose description holds options, they are
\* None.
C7_DiscoveredIsUnresolved ==
    /\ \A d \in Discovered(log) :
          d.port = 0 /\ d.address = "" /\ d.host_name = "" /\ d.txt = ""
    /\ \A d \in Discovered(fakeLog) :
          d.port = 0 /\ d.address = None /\ d.host_name = None /\ d.txt = None

C7_Witness ==
    /\ taken = 3
    /\ pushed[1].event = "AVAHI_BROWSER_FAILURE"
    /\ pushed[2].event = "AVAHI_BROWSER_REMOVE"
    /\ pushed[3].event = "AVAHI_BROWSER_NEW"
    /\ Len(log) = 1
    /\ log[1].call = "on_service_discovered"

IsNew(e) == e.event = "AVAHI_BROWSER_NEW"
IsAll(e) == e.event = "AVAHI_BROWSER_ALL_FOR_NOW"
\* The place of the first "all for now" in s, Len(s) + 1 when it holds none.
FirstAll(s) ==
    IF \E i \in DOMAIN s : IsAll(s[i])
    THEN CHOOSE i \in DOMAIN s : IsAll(s[i]) /\ \A j \in 1..(i - 1) : ~IsAll(s[j])
    ELSE Len(s) + 1

\* C1: when the events sent into start_browser's channel are N "new service"
\* events and then an "all for now" (whatever follows it), the listener
\* is called for the events taken so far in the order they were sent:
\* on_service_discovered for the i-th event with that event's name, then
\* on_all_discovered once as its last call, which ends the loop; no event after
\* the "all for now" is taken.
C1_DeliveredInOrderThenAll ==
    LET k == FirstAll(pushed) IN
    (\A i \in 1..(k - 1) : IsNew(pushed[i]))
    => /\ taken <= k
       /\ Len(log) = taken
       /\ \A i \in 1..taken :
            IF i < k
            THEN /\ log[i].call = "on_service_discovered"
                 /\ log[i].arg[1].name = unwrap(pushed[i].name)
            ELSE log[i].call = "on_all_discovered"
       /\ (taken = k => pc # "browse_loop")

C1_Witness ==
    /\ pc = "idle"
    /\ taken = 3
    /\ Len(log) = 3
    /\ log[1].call = "on_service_discovered"
    /\ log[1].arg[1].name = "b\\uFFFD"
    /\ log[2].call = "on_service_discovered"
    /\ log[2].arg[1].name = "a"
    /\ log[3].call = "on_all_discovered"

\* C2: start_browser returns to its caller only in the step that takes an
\* "all for now" event from the channel and calls on_all_discovered; taking
\* new-service, removal, cache-exhausted or failure events never returns.
C2_ReturnsOnlyOnAllForNow ==
    [][(pc = "browse_loop" /\ pc' = "idle")
       => /\ taken' = taken + 1
          /\ IsAll(pushed[taken'])
          /\ Len(log') = Len(log) + 1
          /\ log'[Len(log')].call = "on_all_discovered"]_vars

C2_Witness ==
    /\ pc = "idle"
    /\ calls = 1
    /\ taken = 3
    /\ pushed[1].event = "AVAHI_BROWSER_FAILURE"
    /\ pushed[2].event = "AVAHI_BROWSER_NEW"
    /\ IsAll(pushed[3])
    /\ Len(log) = 2

\* C3: once a resolve call has ended, by returning or by panicking, every
\* resolver that was created has been released exactly once.
C3_ResolverReleasedWhenResolveEnds ==
    pc \in {"idle", "panicked"}
    => \A r \in resolvers : Count(resolver_frees, r.id) = 1

\* C4: stop_service_discovery never fails: called with no active browser it
\* releases nothing, called with one it releases exactly that browser, and no
\* browser is ever released twice.
C4_StopIsIdempotent ==
    [][stop_service_discovery
       => /\ pc' = "idle"
          /\ panic' = panic
          /\ (service_browser = None => browser_frees' = browser_frees)
          /\ (service_browser # None
                => browser_frees' = Append(browser_frees, unwrap(service_browser)))
          /\ \A b \in browsers : Count(browser_frees', b.id) <= 1]_vars

C4_Witness ==
    /\ pc = "idle"
    /\ calls = 2
    /\ browser_frees = <<1, 2>>
    /\ service_browser = None

\* C8: resolve calls on_service_resolved at most once, and only with the
\* description built from the one event it took, a found event whose address,
\* host name, name, domain and type are all present; when that event is a
\* failure event the calling thread panics and the listener is not called.
C8_ResolvedOnlyFromCompleteEvent ==
    /\ Len(rlog) <= 1
    /\ rtaken <= 1
    /\ Len(rlog) = 1
         => /\ rtaken = 1
            /\ LET raw == rpushed[1]
                   d == rlog[1].arg[1]
               IN /\ raw.event = "AVAHI_RESOLVER_FOUND"
                  /\ raw.address # None /\ d.address = unwrap(raw.address)
                  /\ raw.host_name # None /\ d.host_name = unwrap(raw.host_name)
                  /\ raw.name # None /\ d.name = unwrap(raw.name)
                  /\ raw.domain # None /\ d.domain = unwrap(raw.domain)
                  /\ raw.service_type # None
                  /\ d.type_name = unwrap(raw.service_type)
                  /\ d.port = raw.port
    /\ (rtaken = 1 /\ rpushed[1].event = "AVAHI_RESOLVER_FAILURE")
         => panic = "unwrap_none" /\ rlog = << >>

C8_Witness ==
    /\ rtaken = 1
    /\ rpushed[1].event = "AVAHI_RESOLVER_FAILURE"
    /\ pc = "panicked"

\* C9: no step of a resolve call, from its start to its return or panic,
\* changes the wrapper's poll, client or browser handle or creates, starts or
\* releases a poll engine, client or browser; it creates at most one resolver.
C9_ResolveLeavesBrowsingState ==
    [][(rcalls' # rcalls \/ pc = "resolve_recv")
       => /\ UNCHANGED <<poll, client, service_browser>>
          /\ UNCHANGED <<polls, polls_started, clients, browsers, browser_frees>>
          /\ resolvers \subseteq resolvers'
          /\ Cardinality(resolvers' \ resolvers) <= 1
          /\ (pc = "resolve_recv" => resolvers' = resolvers)]_vars

C9_Witness ==
    /\ pc = "idle"
    /\ rcalls = 1
    /\ Len(rlog) = 1
    /\ service_browser = Some(1)
    /\ resolver_frees = <<1>>

C11_AllReleasedAfterTeardown ==
    (pc = "dropped" /\ browsers # {}) =>
        /\ \A p \in polls : p \in Range(poll_frees)
        /\ \A c \in clients : c.id \in Range(client_frees)
        /\ \A b \in browsers : b.id \in Range(browser_frees)

\* C12: a resolve that waits on its channel and has been sent at least one
\* resolver event eventually finishes (it returns, panics, or the process
\* dies), and when it returns or panics it has taken exactly one event.
C12_ResolveFinishesAfterOneEvent ==
    /\ (pc = "resolve_recv" /\ Len(rpushed) >= 1)
            ~> (pc \in {"idle", "panicked", "crashed"})
    /\ [][(pc = "resolve_recv" /\ pc' \in {"idle", "panicked"})
            => (rtaken = 0 /\ rtaken' = 1)]_vars

\* A resolve that returned after its callback had sent two events: it took
\* the first and left the second.
C12_Witness ==
    /\ pc = "idle"
    /\ rcalls = 1
    /\ Len(rpushed) = 2
    /\ rtaken = 1
    /\ Len(rlog) = 1

\* C13: whenever the poll thread can invoke browse_callback for a browser
\* (the browser is unreleased and its poll engine runs), the channel sender
\* registered as that browser's user-data is still alive.
C13_SenderOutlivesBrowser ==
    \A b \in browsers : Emitting(b) => SenderAlive(b)

\* C14: over any sequence of start_browser calls the native poll engine and
\* the native client are each created at most once, and the poll engine is
\* started at most once.
C14_InitializationIsIdempotent ==
    /\ Cardinality(polls) <= 1
    /\ Cardinality(clients) <= 1
    /\ Cardinality(polls_started) <= 1

IsNewOrAll(e) == IsNew(e) \/ IsAll(e)

\* C15: taking a browser event that is neither "new service" nor "all for
\* now" makes no listener call and leaves start_browser in its loop, and the
\* listener calls made so far are always those of the "new service" and "all
\* for now" events taken so far, in the order they were sent, whatever other
\* events lie between them.
C15_OtherEventsAbsorbed ==
    /\ [][(/\ pc = "browse_loop"
           /\ taken' = taken + 1
           /\ ~IsNewOrAll(pushed[taken']))
          => (log' = log /\ pc' = "browse_loop" /\ pushed' = pushed)]_vars
    /\ [](LET kept == SelectSeq(SubSeq(pushed, 1, taken), IsNewOrAll) IN
            /\ Len(log) = Len(kept)
            /\ \A i \in 1..Len(kept) :
                 IF IsNew(kept[i])
                 THEN /\ log[i].call = "on_service_discovered"
                      /\ log[i].arg[1].name = unwrap(kept[i].name)
                 ELSE log[i].call = "on_all_discovered")

\* The loop took a cache-exhausted event, a removal and then a new service:
\* one listener call, and start_browser is still in its loop.
C15_Witness ==
    /\ pc = "browse_loop"
    /\ taken = 3
    /\ pushed[1].event = "AVAHI_BROWSER_CACHE_EXHAUSTED"
    /\ pushed[2].event = "AVAHI_BROWSER_REMOVE"
    /\ IsNew(pushed[3])
    /\ Len(log) = 1
    /\ log[1].call = "on_service_discovered"

\* How many of the listener calls in l report a service named n.
DiscoveredCount(l, n) ==
    Cardinality({i \in DOMAIN l : /\ l[i].call = "on_service_discovered"
                                  /\ l[i].arg[1].name = n})
\* How many of the first k events of s are "new service" events named n.
NewCount(s, k, n) ==
    Cardinality({i \in 1..k : IsNew(s[i]) /\ s[i].name = Some(n)})
\* The caller thread is in no wrapper operation.
Ended == pc \in {"idle", "panicked", "dropped"}

\* C16 as first stated: when the operation that created a
\* channel has ended, every event pushed into the channel has been taken.
C16_ConsumedExactlyOnce ==
    Ended => (taken = Len(pushed) /\ rtaken = Len(rpushed))

\* C16: every event a callback pushes into a channel is taken at most once
\* and dispatched at most once: the listener is called at most once per
\* event taken, a service is reported no more often than "new service"
\* events naming it were taken, and the only events left in a channel when
\* its operation ends are those sent after the event that ended it (the "all
\* for now" of start_browser, the first event of resolve).
C16_ConsumedAtMostOnce ==
    /\ taken <= Len(pushed)
    /\ rtaken <= Len(rpushed)
    /\ Len(log) <= taken
    /\ Len(rlog) <= rtaken
    /\ \A n \in {to_string_lossy(c) : c \in CNames} :
         DiscoveredCount(log, n) <= NewCount(pushed, taken, n)
    /\ (Ended /\ taken < Len(pushed)) => (taken >= 1 /\ IsAll(pushed[taken]))
    /\ (Ended /\ rtaken < Len(rpushed)) => rtaken = 1

\* start_browser returned on an "all for now" that a "new service" event
\* followed into the channel: that event was never taken.
C16_Witness ==
    /\ pc = "idle"
    /\ taken = 1
    /\ Len(pushed) = 2
    /\ IsAll(pushed[1])
    /\ IsNew(pushed[2])
    /\ Len(log) = 1

\* C17: a resolve called while the wrapper's client handle is unset panics
\* at once: the call creates no resolver, and once it has panicked no event
\* has been taken from its channel and the resolved listener has not been
\* called.
C17_ResolveWithoutClientAborts ==
    /\ [][(rcalls' = rcalls + 1 /\ client = None)
          => /\ pc' = "panicked"
             /\ panic' = "client_none"
             /\ resolvers' = resolvers
             /\ resolver_frees' = resolver_frees]_vars
    /\ [](panic = "client_none"
           => /\ pc = "panicked"
              /\ rpushed = << >>
              /\ rtaken = 0
              /\ rlog = << >>)

\* resolve was the first operation on a new wrapper and panicked.
C17_Witness ==
    /\ pc = "panicked"
    /\ panic = "client_none"
    /\ calls = 0
    /\ rcalls = 1
    /\ client = None
    /\ resolvers = {}

\* C18: the client handle is set only if the poll handle is set and the
\* browser handle only if the client handle is set; every native client
\* belongs to a created poll engine, and every browser and resolver is created
\* against the client the wrapper's client handle holds at that moment.
C18_HandlesRespectCreationOrder ==
    /\ [](/\ client # None => poll # None
          /\ service_browser # None => client # None
          /\ \A c \in clients : c.poll \in polls
          /\ \A b \in browsers : \E c \in clients : c.id = b.client
          /\ \A r \in resolvers : \E c \in clients : c.id = r.client)
    /\ [][/\ \A b \in browsers' \ browsers : client' = Some(b.client)
          /\ \A r \in resolvers' \ resolvers : client = Some(r.client)]_vars

\* After two start_browser calls a resolve created its resolver against the
\* second client.
C18_Witness ==
    /\ pc = "resolve_recv"
    /\ calls = 2
    /\ poll = Some(2)
    /\ client = Some(2)
    /\ service_browser = Some(2)
    /\ \E r \in resolvers : r.client = 2

\* C19: a wrapper has at most one native browser that it created and has
\* not released.
C19_AtMostOneUnreleasedBrowser ==
    Cardinality({b \in browsers : b.id \notin Range(browser_frees)}) <= 1

====
